---- MODULE Spec2Model ----
(***************************************************************************)
(* Furnace-relining game of src/index.tsx: the App component's state, the  *)
(* refs the animation-frame loop reads, the command handlers and gameLoop. *)
(*                                                                         *)
(* Numbers.  hp and globalTemp are JavaScript numbers that move in steps   *)
(* of 3, 4.5, 6 and 0.9; they are kept here in tenths (Fx(100) = 1000), so *)
(* every step is an integer and every comparison of the source is exact.   *)
(* Coordinates are pixels.  A distance is only ever compared with a        *)
(* constant in the interaction logic, so it is kept as its square.         *)
(*                                                                         *)
(* React.  A setter called from a click or key handler is rendered and its *)
(* passive effects (the "Sync refs" effects) are flushed before the next   *)
(* frame, so a handler updates state and refs in one step.  A setter       *)
(* called from gameLoop (an animation-frame callback) is rendered later    *)
(* and the ref effects run after that render: the next gameLoop may run    *)
(* before them and then reads the refs of the previous commit.  Tick       *)
(* writes the state, SyncRefs is the flush of the effects.                 *)
(*                                                                         *)
(* Left out: the state only the renderer reads (shake, targetLocked,       *)
(* activeSegmentId, which a run of gameLoop recomputes from scratch and    *)
(* Resolver gives) and isWorking, which gameLoop reads together with the   *)
(* Space key as the input "working".                                       *)
(***************************************************************************)
EXTENDS Integers, Sequences, FiniteSets, TLC

\* ---------------------------------------------------------------- constants
\* window.innerWidth x window.innerHeight of the session (a 2560x1440 screen)
GAME_WIDTH == 2560
GAME_HEIGHT == 1440
CX == GAME_WIDTH \div 2
CY == GAME_HEIGHT \div 2
MIN_DIM == IF GAME_WIDTH < GAME_HEIGHT THEN GAME_WIDTH ELSE GAME_HEIGHT
R_INNER_BASE == (MIN_DIM * 15) \div 100
R_OUTER_BASE == (MIN_DIM * 40) \div 100
R_ROBOT_MIN == R_INNER_BASE + 20
R_ROBOT_MAX == R_OUTER_BASE + 40

\* fixed point: tenths
Fx(n) == n * 10

Stages == {"INTRO", "DEMOLISH", "CLEAN", "CONSTRUCT", "HEAT", "VICTORY"}
Steps == {"MOLD", "POUR", "DEMOLD"}
\* parseInt(e.key) - 1 of a key value that is not a digit: NaN, which equals
\* no tool index
NaN == -1
ToolValues == (0..4) \cup {NaN}
\* targetSeg === undefined
NoTarget == -1
\* activeSegmentId === null, and the id the HEAT stage shows
NoSegment == -1
HEAT_SEGMENT_ID == 999
\* toastMessage === null
null == "null"

Abs(n) == IF n < 0 THEN -n ELSE n
MaxOf(a, b) == IF a > b THEN a ELSE b
MinOf(a, b) == IF a < b THEN a ELSE b

\* ------------------------------------------------------------------- state
VARIABLES
  stage, activeLayer, constructStep, robot, activeToolIdx,
  segments, debris, particles, globalTemp,
  toastMessage, toastTimer, toastCalls,
  refs, segmentsRef, segsAliased,
  \* what the person at the controls is set on: "any" for any use of them,
  \* "completes" once set on completing the procedure
  operator

vars == << stage, activeLayer, constructStep, robot, activeToolIdx,
           segments, debris, particles, globalTemp,
                    toastMessage, toastTimer, toastCalls,
           refs, segmentsRef, segsAliased, operator >>

\* the values the "Sync refs" effects copy into stageRef, activeToolRef,
\* activeLayerRef, constructStepRef, globalTempRef, robotRef and debrisRef
Snapshot(st, tl, ly, sp, tm, rb, db) ==
  [stage |-> st, tool |-> tl, layer |-> ly, step |-> sp, temp |-> tm,
   robot |-> rb, debris |-> db]

\* ---------------------------------------------------------------- segments
\* initGame: four 90 degree wedges
WedgeSegments ==
  [i \in 1..4 |->
     [id |-> i - 1, startAngle |-> (i - 1) * 90, endAngle |-> i * 90,
      rInner |-> R_INNER_BASE, rOuter |-> R_OUTER_BASE,
      hp |-> Fx(100), state |-> "intact"]]

\* four rings a third of the band thick
RingSegmentsThirds ==
  LET totalThickness == R_OUTER_BASE - R_INNER_BASE
      layerThickness == totalThickness \div 3
  IN [i \in 1..4 |->
        [id |-> i - 1, startAngle |-> 0, endAngle |-> 360,
         rInner |-> R_INNER_BASE + (i - 1) * layerThickness,
         rOuter |-> R_INNER_BASE + i * layerThickness,
         hp |-> 0, state |-> "empty"]]
\* initConstruction: four concentric rings
RingSegments ==
  LET totalThickness == R_OUTER_BASE - R_INNER_BASE
      layerThickness == totalThickness \div 4
  IN [i \in 1..4 |->
        [id |-> i - 1, startAngle |-> 0, endAngle |-> 360,
         rInner |-> R_INNER_BASE + (i - 1) * layerThickness,
         rOuter |-> R_INNER_BASE + i * layerThickness,
         hp |-> 0, state |-> "empty"]]

\* ------------------------------------------------------------------- robot
RobotInitAtStart == [x |-> CX, y |-> CY + R_INNER_BASE + 60, angle |-> 0]
RobotInit == [x |-> CX, y |-> CY + R_INNER_BASE + 50, angle |-> 0]
RobotStart == [x |-> CX, y |-> CY + R_INNER_BASE + 60, angle |-> 0]
RobotConstruct == [x |-> CX, y |-> CY + R_INNER_BASE + 20, angle |-> 90]

Init ==
  /\ stage = "INTRO"
  /\ activeLayer = 0
  /\ constructStep = "MOLD"
  /\ robot = RobotInit
  /\ activeToolIdx = 0
  /\ segments = << >>
  /\ debris = {}
  /\ particles = {}
  /\ globalTemp = 0
  /\ toastMessage = null
  /\ toastTimer = FALSE
  /\ toastCalls = 0
  /\ refs = Snapshot("INTRO", 0, 0, "MOLD", 0, RobotInit, {})
  /\ segmentsRef = << >>
  /\ segsAliased = TRUE
  /\ operator = "any"

\* the manipulator suggested for POUR
SuggestedToolNoInjector(st, step) ==
  IF st = "DEMOLISH" THEN 0
  ELSE IF st = "CLEAN" THEN 1
  ELSE IF st = "CONSTRUCT" THEN 2
  ELSE IF st = "HEAT" THEN 4
  ELSE -1
\* getSuggestedToolIdx
SuggestedTool(st, step) ==
  IF st = "DEMOLISH" THEN 0
  ELSE IF st = "CLEAN" THEN 1
  ELSE IF st = "CONSTRUCT"
  THEN (IF step = "MOLD" \/ step = "DEMOLD" THEN 2
        ELSE IF step = "POUR" THEN 3
        ELSE -1)
  ELSE IF st = "HEAT" THEN 4
  ELSE -1

\* ---------------------------------------------------------------- handlers
\* initGame without setGlobalTemp(0)
initGameKeepsTemp ==
  /\ stage = "INTRO"
  /\ ~toastTimer
  /\ segments' = WedgeSegments
  /\ debris' = {}
  /\ stage' = "DEMOLISH"
  /\ activeToolIdx' = 0
  /\ robot' = RobotStart
  /\ activeLayer' = 0
  /\ constructStep' = "MOLD"
  /\ toastMessage' = "DEMOLISH_START"
  /\ toastCalls' = 0
  /\ refs' = Snapshot("DEMOLISH", 0, 0, "MOLD", globalTemp, RobotStart, {})
  /\ segmentsRef' = WedgeSegments
  /\ segsAliased' = TRUE
  /\ UNCHANGED << particles, toastTimer, globalTemp >>
  /\ UNCHANGED operator
\* initGame, the click on the start button of the INTRO overlay.  The
\* operator starts a game after the last notification has timed out.
initGame ==
  /\ stage = "INTRO"
  /\ ~toastTimer
  /\ segments' = WedgeSegments
  /\ debris' = {}
  /\ stage' = "DEMOLISH"
  /\ activeToolIdx' = 0
  /\ robot' = RobotStart
  /\ activeLayer' = 0
  /\ constructStep' = "MOLD"
  /\ globalTemp' = 0
  /\ toastMessage' = "DEMOLISH_START"
  /\ toastCalls' = 0
  /\ refs' = Snapshot("DEMOLISH", 0, 0, "MOLD", 0, RobotStart, {})
  /\ segmentsRef' = WedgeSegments
  /\ segsAliased' = TRUE
  /\ UNCHANGED << particles, toastTimer >>
  /\ UNCHANGED operator

\* returnToMenu with the refs left to a later run of the effects
returnToMenuRefsLater ==
  /\ stage # "INTRO"
  /\ stage' = "INTRO"
  /\ robot' = RobotInit
  /\ segments' = << >>
  /\ debris' = {}
  /\ particles' = {}
  /\ toastMessage' = null
  /\ toastCalls' = 0
  /\ segsAliased' = FALSE
  /\ UNCHANGED << activeLayer, constructStep, activeToolIdx, globalTemp,
                  toastTimer, refs, segmentsRef >>
  /\ UNCHANGED operator
\* returnToMenu without setDebris([])
returnToMenuKeepsDebris ==
  /\ stage # "INTRO"
  /\ stage' = "INTRO"
  /\ robot' = RobotInit
  /\ segments' = << >>
  /\ particles' = {}
  /\ toastMessage' = null
  /\ toastCalls' = 0
  /\ refs' = Snapshot("INTRO", activeToolIdx, activeLayer, constructStep,
                      globalTemp, RobotInit, debris)
  /\ segmentsRef' = << >>
  /\ segsAliased' = TRUE
  /\ UNCHANGED << activeLayer, constructStep, activeToolIdx, globalTemp,
                  toastTimer, debris >>
  /\ UNCHANGED operator
\* returnToMenu, the click on the menu button of the HUD or of the VICTORY
\* overlay
returnToMenu ==
  /\ stage # "INTRO"
  /\ stage' = "INTRO"
  /\ robot' = RobotInit
  /\ segments' = << >>
  /\ debris' = {}
  /\ particles' = {}
  /\ toastMessage' = null
  /\ toastCalls' = 0
  /\ refs' = Snapshot("INTRO", activeToolIdx, activeLayer, constructStep,
                      globalTemp, RobotInit, {})
  /\ segmentsRef' = << >>
  /\ segsAliased' = TRUE
  /\ UNCHANGED << activeLayer, constructStep, activeToolIdx, globalTemp,
                  toastTimer >>
  /\ UNCHANGED operator

\* ---------------------------------------------------------------- geometry
\* squared distance from the site centre, Math.hypot(x - CX, y - CY) ^ 2
Dist2(p) == (p.x - CX) * (p.x - CX) + (p.y - CY) * (p.y - CY)
\* squared distance of two points
PDist2(p, q) == (p.x - q.x) * (p.x - q.x) + (p.y - q.y) * (p.y - q.y)
\* dist > c and dist < c for a distance given by its square
DistGT(d2, c) == c < 0 \/ d2 > c * c
DistLT(d2, c) == c > 0 /\ d2 < c * c

\* floor of the square root, by bisection (46340 is the largest integer
\* whose square TLC can hold)
RECURSIVE SqrtIn(_, _, _)
SqrtIn(n, lo, hi) ==
  IF lo >= hi THEN lo
  ELSE LET mid == (lo + hi + 1) \div 2
       IN IF mid * mid <= n THEN SqrtIn(n, mid, hi) ELSE SqrtIn(n, lo, mid - 1)
ISqrt(n) == SqrtIn(n, 0, MinOf(n, 46340))

\* n / d rounded to the nearest integer, d > 0
RoundDiv(n, d) == IF n >= 0 THEN (2 * n + d) \div (2 * d)
                  ELSE -((2 * (-n) + d) \div (2 * d))

\* Math.floor(rAngleDeg / 90) % 4, where rAngleDeg is atan2(y-CY, x-CX) in
\* degrees plus 90, plus 360 when negative: the quadrant, clockwise from up
WedgeIndex(p) ==
  LET ux == p.x - CX
      uy == p.y - CY
  IN IF uy < 0 /\ ux >= 0 THEN 0
     ELSE IF uy >= 0 /\ ux > 0 THEN 1
     ELSE IF ux = 0 /\ uy = 0 THEN 1
     ELSE IF uy > 0 /\ ux <= 0 THEN 2
     ELSE 3

\* (Math.atan2(dy, dx) * 180 / Math.PI) + 90 for the eight key directions
Heading(dx, dy) ==
  IF dx = 0 THEN (IF dy < 0 THEN 0 ELSE 180)
  ELSE IF dx > 0 THEN (IF dy < 0 THEN 45 ELSE IF dy = 0 THEN 90 ELSE 135)
  ELSE (IF dy > 0 THEN 225 ELSE IF dy = 0 THEN 270 ELSE -45)

\* CX + R * Math.cos(angle), CY + R * Math.sin(angle) with
\* angle = atan2(ny - CY, nx - CX): the point of the circle of radius R in the
\* direction of (nx, ny), to the nearest pixel; the distance of (nx, ny) is
\* taken in tenths of a pixel
OnCircle(R, nx, ny) ==
  LET ux == nx - CX
      uy == ny - CY
      d10 == ISqrt((ux * ux + uy * uy) * 100)
  IN IF ux = 0 /\ uy = 0 THEN [x |-> CX + R, y |-> CY]
     ELSE [x |-> CX + RoundDiv(R * ux * 10, d10),
           y |-> CY + RoundDiv(R * uy * 10, d10)]

\* the movement without the pull back from outside R_ROBOT_MAX
MoveRobotNoPullBack(r, dx, dy) ==
  LET moving == Abs(dx) * 10 > 1 \/ Abs(dy) * 10 > 1
      speed == 8
      nextX == r.x + dx * speed
      nextY == r.y + dy * speed
      d2 == (nextX - CX) * (nextX - CX) + (nextY - CY) * (nextY - CY)
      corrected ==
        IF DistLT(d2, R_ROBOT_MIN) THEN OnCircle(R_ROBOT_MIN, nextX, nextY)
        ELSE [x |-> nextX, y |-> nextY]
      moved == IF moving
               THEN [x |-> corrected.x, y |-> corrected.y,
                     angle |-> Heading(dx, dy)]
               ELSE r
  IN [x |-> MaxOf(50, MinOf(GAME_WIDTH - 50, moved.x)),
      y |-> MaxOf(50, MinOf(GAME_HEIGHT - 50, moved.y)),
      angle |-> moved.angle]
\* gameLoop step 1: the position after the input vector (dx, dy), the radial
\* correction and then the screen box
MoveRobot(r, dx, dy) ==
  LET moving == Abs(dx) * 10 > 1 \/ Abs(dy) * 10 > 1
      speed == 8
      nextX == r.x + dx * speed
      nextY == r.y + dy * speed
      d2 == (nextX - CX) * (nextX - CX) + (nextY - CY) * (nextY - CY)
      corrected ==
        IF DistGT(d2, R_ROBOT_MAX) THEN OnCircle(R_ROBOT_MAX, nextX, nextY)
        ELSE IF DistLT(d2, R_ROBOT_MIN) THEN OnCircle(R_ROBOT_MIN, nextX, nextY)
        ELSE [x |-> nextX, y |-> nextY]
      moved == IF moving
               THEN [x |-> corrected.x, y |-> corrected.y,
                     angle |-> Heading(dx, dy)]
               ELSE r
  IN [x |-> MaxOf(50, MinOf(GAME_WIDTH - 50, moved.x)),
      y |-> MaxOf(50, MinOf(GAME_HEIGHT - 50, moved.y)),
      angle |-> moved.angle]

\* ------------------------------------------------------------------ debris
\* a wedge's debris lands at radius (R_INNER_BASE + R_OUTER_BASE) / 2 +- 40 and
\* angle startAngle + [0, 90): two landing spots of wedge 0 (radius 396 at
\* 45 degrees and at 21 degrees), as offsets from the centre, turned by 90
\* degrees per wedge
RotCW(v) == [x |-> -v.y, y |-> v.x]
RECURSIVE Turn(_, _)
Turn(v, w) == IF w = 0 THEN v ELSE Turn(RotCW(v), w - 1)
SpotOffsets == { [x |-> 280, y |-> -280], [x |-> 140, y |-> -370] }
SpawnDebrisFive(w, at) ==
  { [id |-> 6 * w + k, x |-> CX + Turn(at, w).x, y |-> CY + Turn(at, w).y] :
    k \in 0..4 }
\* the 6 pieces pushed when wedge w breaks, all of them near the spot at
SpawnDebris(w, at) ==
  { [id |-> 6 * w + k, x |-> CX + Turn(at, w).x, y |-> CY + Turn(at, w).y] :
    k \in 0..5 }

\* --------------------------------------------------------------- particles
\* a particle is its remaining life in hundredths; position, velocity, colour
\* and size are drawn at random and read by the renderer only
WORK_PARTICLE_LIFE == 100
SWEEP_PARTICLE_LIFE == 50
\* Particle Update: life - 0.08, kept while life > 0
AgeParticles(ps) == { l - 8 : l \in { q \in ps : q - 8 > 0 } }

\* ---------------------------------------------------------------- gameLoop
\* the segment array after targetSeg (index i, from 0) was assigned hp h and
\* state st
SetSeg(segs, i, h, st) ==
  [segs EXCEPT ![i + 1] = [@ EXCEPT !.hp = h, !.state = st]]

\* gameLoop step 2, Interaction Logic and Check Logic, for the robot at
\* newRobot: the index of targetSeg in segmentsRef.current (NoTarget for
\* undefined), locked and activeSegId
Resolver(newRobot) ==
  LET currStage == refs.stage
      currTool == refs.tool
      currLayer == refs.layer
      currStep == refs.step
      d2 == Dist2(newRobot)
      n == Len(segmentsRef)
      midline == (R_INNER_BASE + R_OUTER_BASE) \div 2
      targetIdx ==
        IF currStage = "DEMOLISH" THEN
          IF DistGT(d2, midline + 200) \/ DistLT(d2, midline - 200)
          THEN NoTarget
          ELSE IF WedgeIndex(newRobot) < n THEN WedgeIndex(newRobot)
          ELSE NoTarget
        ELSE IF currStage = "CONSTRUCT" THEN
          IF currLayer < n THEN currLayer ELSE NoTarget
        ELSE IF currStage = "HEAT" THEN
          IF DistLT(d2, R_OUTER_BASE + 80) /\ DistGT(d2, R_INNER_BASE - 20)
             /\ n > 0
          THEN 0 ELSE NoTarget
        ELSE NoTarget
      hasTarget == targetIdx # NoTarget
      targetSeg == segmentsRef[targetIdx + 1]
      debrisNearby ==
        \E d \in refs.debris : DistLT(PDist2(d, newRobot), 350)
      ringRadius == (targetSeg.rInner + targetSeg.rOuter) \div 2
      inRange == DistLT(d2, ringRadius + 100) /\ DistGT(d2, ringRadius - 100)
      locked ==
        /\ currStage # "INTRO" /\ currStage # "VICTORY"
        /\ IF currStage = "CLEAN" /\ currTool = 1 THEN debrisNearby
           ELSE IF currStage = "HEAT" /\ currTool = 4 /\ hasTarget THEN TRUE
           ELSE IF currStage = "DEMOLISH" /\ currTool = 0 /\ hasTarget
                   /\ targetSeg.state = "intact" THEN TRUE
           ELSE IF currStage = "CONSTRUCT" /\ hasTarget THEN
             /\ inRange
             /\ \/ currStep = "MOLD" /\ currTool = 2
                   /\ targetSeg.state = "empty"
                \/ currStep = "POUR" /\ currTool = 3
                   /\ targetSeg.state = "molded"
                \/ currStep = "DEMOLD" /\ currTool = 2
                   /\ targetSeg.state = "filled"
           ELSE FALSE
      activeSegId ==
        IF ~locked THEN NoSegment
        ELSE IF currStage = "HEAT" THEN HEAT_SEGMENT_ID
        ELSE IF currStage \in {"DEMOLISH", "CONSTRUCT"} THEN targetSeg.id
        ELSE NoSegment
  IN [targetIdx |-> targetIdx, locked |-> locked, activeSegId |-> activeSegId]

\* const speedMultiplier = 3.0
SPEED_MULTIPLIER == 3

\* DEMOLISH work on targetSeg: hp - 1 * speedMultiplier, not below 0; at 0 an
\* intact wedge breaks
DemolishWorkUnclamped(seg) ==
  LET hp == seg.hp - Fx(1) * SPEED_MULTIPLIER
  IN IF hp <= 0 /\ seg.state = "intact"
     THEN [hp |-> hp, state |-> "broken", broke |-> TRUE]
     ELSE [hp |-> hp, state |-> seg.state, broke |-> FALSE]
\* the wedge left intact at hp 0
DemolishWorkNeverBreaks(seg) ==
  LET hp == MaxOf(0, seg.hp - Fx(1) * SPEED_MULTIPLIER)
  IN [hp |-> hp, state |-> seg.state, broke |-> FALSE]
DemolishWork(seg) ==
  LET hp == MaxOf(0, seg.hp - Fx(1) * SPEED_MULTIPLIER)
  IN IF hp <= 0 /\ seg.state = "intact"
     THEN [hp |-> 0, state |-> "broken", broke |-> TRUE]
     ELSE [hp |-> hp, state |-> seg.state, broke |-> FALSE]

\* the work of a sub-phase per run, in tenths: 1.5, 1.0 and 2.0 times
\* speedMultiplier
StepRate(step) ==
  (IF step = "MOLD" THEN 15 ELSE IF step = "POUR" THEN 10 ELSE 20)
    * SPEED_MULTIPLIER
\* MOLD leaving the ring filled
StepResultSkipsMolded(step) ==
  IF step = "MOLD" THEN "filled" ELSE IF step = "POUR" THEN "filled"
  ELSE "concrete"
\* the state a ring takes when the sub-phase completes
StepResult(step) ==
  IF step = "MOLD" THEN "molded" ELSE IF step = "POUR" THEN "filled"
  ELSE "concrete"
\* the sub-phase set when the sub-phase completes (after DEMOLD: on a layer
\* below 3)
StepAfterSkipsPour(step) ==
  IF step = "MOLD" THEN "DEMOLD" ELSE IF step = "POUR" THEN "DEMOLD"
  ELSE "MOLD"
StepAfter(step) ==
  IF step = "MOLD" THEN "POUR" ELSE IF step = "POUR" THEN "DEMOLD" ELSE "MOLD"
\* CONSTRUCT work on targetSeg: hp + rate, not above 100; at 100 the ring
\* takes the next state and hp returns to 0
ConstructWorkKeepsState(seg, step) ==
  LET hp == MinOf(Fx(100), seg.hp + StepRate(step))
  IN IF hp >= Fx(100)
     THEN [hp |-> 0, state |-> seg.state, done |-> TRUE]
     ELSE [hp |-> hp, state |-> seg.state, done |-> FALSE]
ConstructWork(seg, step) ==
  LET hp == MinOf(Fx(100), seg.hp + StepRate(step))
  IN IF hp >= Fx(100)
     THEN [hp |-> 0, state |-> StepResult(step), done |-> TRUE]
     ELSE [hp |-> hp, state |-> seg.state, done |-> FALSE]
\* Layer Complete: currLayer < 3 moves to the next layer, else all layers done
HasNextLayerInclusive(currLayer) == currLayer <= 3
HasNextLayer(currLayer) == currLayer < 3

\* HEAT work: newTemp = globalTempRef.current + 0.3 * speedMultiplier
HeatWorkTestsClamped(temp) ==
  LET newTemp == temp + 3 * SPEED_MULTIPLIER
  IN [temp |-> MinOf(Fx(100), newTemp),
      victory |-> MinOf(Fx(100), newTemp) > Fx(100)]
\* Math.min(100, ...) left out
HeatWorkUnclamped(temp) ==
  LET newTemp == temp + 3 * SPEED_MULTIPLIER
  IN [temp |-> newTemp, victory |-> newTemp >= Fx(100)]
HeatWork(temp) ==
  LET newTemp == temp + 3 * SPEED_MULTIPLIER
  IN [temp |-> MinOf(Fx(100), newTemp), victory |-> newTemp >= Fx(100)]

\* the vacuum with the 350 of the CLEAN lock as its range
RemainingDebrisLockRange(ds, newRobot) ==
  { d \in ds : ~DistLT(PDist2(d, newRobot), 350) }
\* Special Clean Logic: the debris not closer than vacuumRange to the robot
RemainingDebris(ds, newRobot) ==
  { d \in ds : ~DistLT(PDist2(d, newRobot), 400) }

\* Stage Transitions (Auto)
ToCleanSomeBroken(currStage, allSegs) ==
  /\ currStage = "DEMOLISH"
  /\ Len(allSegs) > 0
  /\ \E i \in 1..Len(allSegs) : allSegs[i].state = "broken"
ToClean(currStage, allSegs) ==
  /\ currStage = "DEMOLISH"
  /\ Len(allSegs) > 0
  /\ \A i \in 1..Len(allSegs) : allSegs[i].state = "broken"
ToConstructDebrisLeft(currStage, debrisRef, allSegs) ==
  /\ currStage = "CLEAN"
  /\ Len(allSegs) > 0
ToConstructAnyStage(currStage, debrisRef, allSegs) ==
  /\ Cardinality(debrisRef) = 0
  /\ Len(allSegs) > 0
ToConstruct(currStage, debrisRef, allSegs) ==
  /\ currStage = "CLEAN"
  /\ Cardinality(debrisRef) = 0
  /\ Len(allSegs) > 0

\* the text showToast is called with in a run (null: no call), from what the
\* run did
ToastOfSilentClean(stepDone, currStep, currLayer, toClean, toConstruct) ==
  IF stepDone /\ currStep = "MOLD" THEN "MOLD_DONE"
  ELSE IF stepDone /\ currStep = "POUR" THEN "POUR_DONE"
  ELSE IF stepDone /\ HasNextLayer(currLayer) THEN "LAYER_DONE"
  ELSE IF stepDone THEN "ALL_LAYERS_DONE"
  ELSE IF toConstruct THEN "CONSTRUCT_START"
  ELSE null
ToastOf(stepDone, currStep, currLayer, toClean, toConstruct) ==
  IF stepDone /\ currStep = "MOLD" THEN "MOLD_DONE"
  ELSE IF stepDone /\ currStep = "POUR" THEN "POUR_DONE"
  ELSE IF stepDone /\ HasNextLayer(currLayer) THEN "LAYER_DONE"
  ELSE IF stepDone THEN "ALL_LAYERS_DONE"
  ELSE IF toClean THEN "DEMOLISH_DONE"
  ELSE IF toConstruct THEN "CONSTRUCT_START"
  ELSE null

\* WORK ACTION: what the block under "working && locked" leaves.  segs is
\* segmentsRef.current after the assignments to targetSeg, broke the id of
\* the wedge broken in this run, stepDone whether a sub-phase completed, heat
\* whether setGlobalTemp was called, with temp, and victory whether
\* setStage('VICTORY') was
NoWork ==
  [worked |-> FALSE, segs |-> segmentsRef, broke |-> NoSegment,
   stepDone |-> FALSE, heat |-> FALSE, temp |-> 0, victory |-> FALSE]
DemolishRun(targetIdx) ==
  LET targetSeg == segmentsRef[targetIdx + 1]
      r == DemolishWork(targetSeg)
  IN [NoWork EXCEPT !.worked = TRUE,
                    !.segs = SetSeg(segmentsRef, targetIdx, r.hp, r.state),
                    !.broke = IF r.broke THEN targetSeg.id ELSE NoSegment]
\* the CONSTRUCT work put on the innermost ring whatever the target
ConstructRunFirstRing(targetIdx) ==
  LET r == ConstructWork(segmentsRef[1], refs.step)
  IN [NoWork EXCEPT !.worked = TRUE,
                    !.segs = SetSeg(segmentsRef, 0, r.hp, r.state),
                    !.stepDone = r.done]
ConstructRun(targetIdx) ==
  LET r == ConstructWork(segmentsRef[targetIdx + 1], refs.step)
  IN [NoWork EXCEPT !.worked = TRUE,
                    !.segs = SetSeg(segmentsRef, targetIdx, r.hp, r.state),
                    !.stepDone = r.done]
HeatRun ==
  LET r == HeatWork(refs.temp)
  IN [NoWork EXCEPT !.worked = TRUE, !.heat = TRUE, !.temp = r.temp,
                    !.victory = r.victory]
WorkActionUngated(res, working) ==
  LET currStage == refs.stage
      hasTarget == res.targetIdx # NoTarget
  IN IF ~(currStage # "INTRO" /\ currStage # "VICTORY" /\ working)
     THEN NoWork
     ELSE IF currStage = "DEMOLISH" /\ hasTarget
     THEN DemolishRun(res.targetIdx)
     ELSE IF currStage = "CONSTRUCT" /\ hasTarget
     THEN ConstructRun(res.targetIdx)
     ELSE IF currStage = "HEAT" THEN HeatRun
     ELSE [NoWork EXCEPT !.worked = TRUE]
WorkAction(res, working) ==
  LET currStage == refs.stage
      hasTarget == res.targetIdx # NoTarget
  IN IF ~(currStage # "INTRO" /\ currStage # "VICTORY"
          /\ working /\ res.locked)
     THEN NoWork
     ELSE IF currStage = "DEMOLISH" /\ hasTarget
     THEN DemolishRun(res.targetIdx)
     ELSE IF currStage = "CONSTRUCT" /\ hasTarget
     THEN ConstructRun(res.targetIdx)
     ELSE IF currStage = "HEAT" THEN HeatRun
     ELSE [NoWork EXCEPT !.worked = TRUE]

\* Special Clean Logic: whether setDebris is called, and with what
SweepOf(newRobot, working) ==
  LET remainingDebris == RemainingDebris(refs.debris, newRobot)
  IN [swept |-> /\ refs.stage = "CLEAN" /\ working /\ refs.tool = 1
                /\ Cardinality(remainingDebris) < Cardinality(refs.debris),
      remainingDebris |-> remainingDebris]

\* the state a run of gameLoop leaves: newRobot from step 1, w from the WORK
\* ACTION, sw from the Special Clean Logic, toClean and toConstruct the two
\* tests of the Stage Transitions
\* the transitions with the drill selected on entering CLEAN
ToolAfterKeepsDrill(allLayersDone, toClean, toConstruct) ==
  IF allLayersDone THEN 4
  ELSE IF toClean THEN 0
  ELSE IF toConstruct THEN 2
  ELSE activeToolIdx
\* the drill selected by a run that finds a particle alive
ToolAfterSparksDrill(allLayersDone, toClean, toConstruct) ==
  IF allLayersDone THEN 4
  ELSE IF toClean THEN 1
  ELSE IF toConstruct THEN 2
  ELSE IF particles # {} THEN 0
  ELSE activeToolIdx
\* the setActiveToolIdx calls of the run: 4 with setStage('HEAT'), 1 with
\* setStage('CLEAN'), 2 in initConstruction
ToolAfter(allLayersDone, toClean, toConstruct) ==
  IF allLayersDone THEN 4
  ELSE IF toClean THEN 1
  ELSE IF toConstruct THEN 2
  ELSE activeToolIdx
TickCommit(newRobot, w, sw, spark, at, toClean, toConstruct) ==
  LET currLayer == refs.layer
      currStep == refs.step
      layerDone == w.stepDone /\ currStep = "DEMOLD"
      allLayersDone == layerDone /\ ~HasNextLayer(currLayer)
      toast == ToastOf(w.stepDone, currStep, currLayer, toClean, toConstruct)
      \* Particles, then Particle Update
      spawned == particles
                 \cup (IF w.worked /\ spark THEN {WORK_PARTICLE_LIFE} ELSE {})
                 \cup (IF sw.swept THEN {SWEEP_PARTICLE_LIFE} ELSE {})
  IN /\ stage' = IF w.victory THEN "VICTORY"
                 ELSE IF allLayersDone THEN "HEAT"
                 ELSE IF toClean THEN "CLEAN"
                 ELSE IF toConstruct THEN "CONSTRUCT"
                 ELSE stage
     /\ activeToolIdx' = ToolAfter(allLayersDone, toClean, toConstruct)
     /\ activeLayer' = IF layerDone /\ HasNextLayer(currLayer)
                       THEN currLayer + 1
                       ELSE IF toConstruct THEN 0
                       ELSE activeLayer
     /\ constructStep' = IF w.stepDone /\ ~allLayersDone
                         THEN StepAfter(currStep)
                         ELSE IF toConstruct THEN "MOLD"
                         ELSE constructStep
     /\ globalTemp' = IF w.heat THEN w.temp ELSE globalTemp
     /\ debris' = IF w.broke # NoSegment
                  THEN debris \cup SpawnDebris(w.broke, at)
                  ELSE IF sw.swept THEN sw.remainingDebris
                  ELSE debris
     /\ segmentsRef' = w.segs
     \* initConstruction puts a new array in the state; until the effects
     \* run the ref keeps the old one
     /\ segments' = IF toConstruct THEN RingSegments
                    ELSE IF segsAliased THEN w.segs
                    ELSE segments
     /\ segsAliased' = (segsAliased /\ ~toConstruct)
     \* Commit State: setRobot(newRobot) is the last setRobot of the run
     /\ robot' = newRobot
     /\ toastMessage' = IF toast # null THEN toast ELSE toastMessage
     /\ toastTimer' = (toastTimer \/ toast # null)
     /\ toastCalls' = IF toast # null THEN 1 ELSE 0
     /\ particles' = AgeParticles(spawned)
     /\ UNCHANGED refs
     /\ UNCHANGED operator

\* the run from the Stage Transitions on
TickWorked(newRobot, w, sw, spark, at) ==
  TickCommit(newRobot, w, sw, spark, at,
             ToClean(refs.stage, w.segs),
             ToConstruct(refs.stage, refs.debris, w.segs))

\* the run from step 2, Interaction Logic, on
TickMoved(newRobot, working, spark, at) ==
  TickWorked(newRobot, WorkAction(Resolver(newRobot), working),
             SweepOf(newRobot, working), spark, at)

\* one run of gameLoop on the input vector (dx, dy), the sum of the key and
\* joystick vectors.  working: Space is in keysPressed or isWorkingRef is
\* set; spark: the outcome of Math.random() > 0.5; at: where the debris of a
\* wedge broken in this run lands (an element of SpotOffsets).  The refs are
\* left as they are: the effects that copy the new state into them run later
\* (SyncRefs)
Tick(dx, dy, working, spark, at) ==
  TickMoved(MoveRobot(refs.robot, dx, dy), working, spark, at)

\* the passive effects of lines 238-245: every ref takes the value of the
\* state it mirrors
CurrentRefs == Snapshot(stage, activeToolIdx, activeLayer, constructStep,
                        globalTemp, robot, debris)
RefsSynced == refs = CurrentRefs /\ segsAliased
SyncRefs ==
  /\ ~RefsSynced
  /\ refs' = CurrentRefs
  /\ segmentsRef' = segments
  /\ segsAliased' = TRUE
  /\ UNCHANGED << stage, activeLayer, constructStep, robot, activeToolIdx,
                  segments, debris, particles, globalTemp, toastMessage,
                  toastTimer, toastCalls >>
  /\ UNCHANGED operator

\* keydown of Digit1..Digit5: e.key is the character the layout and the
\* modifiers give the key, a digit or not ("&" on an AZERTY layout, "!" with
\* Shift); parseInt(e.key) - 1.  The listener is the one the last run of the
\* effects registered: its stage is the stage of that commit, as stageRef
KeyValues == {"1", "2", "3", "4", "5", "&"}
ParseIntMinus1(key) ==
  IF key = "1" THEN 0 ELSE IF key = "2" THEN 1 ELSE IF key = "3" THEN 2
  ELSE IF key = "4" THEN 3 ELSE IF key = "5" THEN 4 ELSE NaN
KeyDigit(key) ==
  /\ refs.stage # "INTRO" /\ refs.stage # "VICTORY"
  /\ activeToolIdx' = ParseIntMinus1(key)
  /\ activeToolIdx' # activeToolIdx
  /\ toastCalls' = 0
  /\ refs' = [CurrentRefs EXCEPT !.tool = activeToolIdx']
  /\ segmentsRef' = segments
  /\ segsAliased' = TRUE
  /\ UNCHANGED << stage, activeLayer, constructStep, robot, segments, debris,
                  particles, globalTemp, toastMessage, toastTimer >>
  /\ UNCHANGED operator

\* the click on tool idx of the toolbar, which the HUD shows in the stages
\* other than INTRO and VICTORY
ToolbarClick(idx) ==
  /\ stage # "INTRO" /\ stage # "VICTORY"
  /\ activeToolIdx' = idx
  /\ activeToolIdx' # activeToolIdx
  /\ toastCalls' = 0
  /\ refs' = [CurrentRefs EXCEPT !.tool = idx]
  /\ segmentsRef' = segments
  /\ segsAliased' = TRUE
  /\ UNCHANGED << stage, activeLayer, constructStep, robot, segments, debris,
                  particles, globalTemp, toastMessage, toastTimer >>
  /\ UNCHANGED operator

\* the timeout showToast arms: setToastMessage(null) after 4000 ms
ToastExpire ==
  /\ toastTimer
  /\ toastMessage' = null
  /\ toastTimer' = FALSE
  /\ toastCalls' = 0
  /\ UNCHANGED << stage, activeLayer, constructStep, robot, activeToolIdx,
                  segments, debris, particles, globalTemp, refs, segmentsRef,
                  segsAliased >>
  /\ UNCHANGED operator

\* ---------------------------------------------------------------- operator
\* The operator drives the robot between stations: on each axis at
\* R_INNER_BASE + 60 from the centre (in reach of the wedges and of rings 0
\* and 1), one at R_INNER_BASE + 240 (rings 2 and 3) and one on the outer
\* bound R_ROBOT_MAX (ring 3 only, out of reach of the wedges).
Stations ==
  { [x |-> CX, y |-> CY - R_INNER_BASE - 60, angle |-> 0],
    [x |-> CX + R_INNER_BASE + 60, y |-> CY, angle |-> 90],
    [x |-> CX, y |-> CY + R_INNER_BASE + 60, angle |-> 0],
    [x |-> CX - R_INNER_BASE - 60, y |-> CY, angle |-> 270],
    [x |-> CX + R_INNER_BASE + 240, y |-> CY, angle |-> 90],
    [x |-> CX, y |-> CY + R_ROBOT_MAX, angle |-> 180] }

\* a wedge or a ring the operator has started on and not yet finished, or
\* the furnace while it heats
WorkInProgress ==
  \/ \E i \in 1..Len(segments) :
       \/ segments[i].state = "intact" /\ segments[i].hp < Fx(100)
       \/ segments[i].state # "intact" /\ segments[i].hp > 0
  \/ stage = "HEAT" /\ globalTemp > 0

\* A drive to station p: a run of gameLoop with the action released and a
\* direction held, more than 12 runs long (two stations are more than 12
\* steps apart), whose last run puts the robot at p.  Such runs apply no
\* work and sweep nothing; the drive is taken when the refs are up to date
\* and no automatic transition is due, so the runs change the robot and the
\* particles (all aged away) only.  The operator
\* finishes the piece of work in hand before driving on.
Walk(p) ==
  /\ RefsSynced
  /\ p # robot
  /\ ~WorkInProgress
  /\ ~(stage = "CLEAN" /\ debris = {} /\ Len(segments) > 0)
  /\ robot' = p
  /\ particles' = {}
  /\ toastCalls' = 0
  /\ refs' = [refs EXCEPT !.robot = p]
  /\ UNCHANGED << stage, activeLayer, constructStep, activeToolIdx, segments,
                  debris, globalTemp, toastMessage, toastTimer, segmentsRef,
                  segsAliased >>
  /\ UNCHANGED operator

\* ------------------------------------------------------------ specification
\* the input vectors of a run of gameLoop outside a drive: none, or
\* ArrowRight for one run
TickInputs == { <<0, 0>>, <<1, 0>> }
\* the operator taps ArrowRight only behind the INTRO and VICTORY overlays,
\* with the robot where a command or a drive left it
InputChoices ==
  IF refs.stage \in {"INTRO", "VICTORY"}
     /\ refs.robot \in Stations \cup {RobotInit}
  THEN TickInputs ELSE { <<0, 0>> }

\* Math.random() > 0.5 is allowed to come out true on a run that finds fewer
\* than MaxLiveParticles particles alive and a stage's work not begun: four wedges untouched, four
\* rings empty, the furnace cold
MaxLiveParticles == 1
FreshWork ==
  /\ Cardinality(particles) < MaxLiveParticles
  /\ \/ refs.stage = "HEAT" /\ globalTemp = 0
     \/ /\ refs.stage = "DEMOLISH"
        /\ \A i \in 1..Len(segments) : segments[i].hp = Fx(100)
     \/ /\ refs.stage = "CONSTRUCT"
        /\ \A i \in 1..Len(segments) :
             segments[i].hp = 0 /\ segments[i].state = "empty"
SparkChoices == IF FreshWork THEN BOOLEAN ELSE {FALSE}
\* where the debris of a wedge broken in the run lands: at either spot for
\* wedge 0, at the first for the others
SpotChoices ==
  IF WedgeIndex(refs.robot) = 0 THEN SpotOffsets
  ELSE { [x |-> 280, y |-> -280] }

Next ==
  \/ initGame
  \/ returnToMenu
  \/ \E in \in InputChoices, working \in BOOLEAN, at \in SpotChoices,
        spark \in SparkChoices :
       Tick(in[1], in[2], working, spark, at)
  \/ SyncRefs
  \/ \E key \in KeyValues : KeyDigit(key)
  \/ \E idx \in 0..4 : ToolbarClick(idx)
  \/ ToastExpire
  \/ \E p \in Stations : Walk(p)

Spec == Init /\ [][Next]_vars

\* ------------------------------------------------- the movement on its own
\* The robot near the two circles that bound it, in the eighth of the site
\* from straight below the centre to the diagonal on its right: a game just started, the robot at a place it walks to by
\* steps of 8 pixels from its start position, and from there every key
\* direction, run after run.  MoveBand is how far from the circles, in
\* pixels, the runs start.
MoveBand == 4
KeyDirections == (-1..1) \X (-1..1)
InSector(p) == p.x >= CX /\ p.y - CY >= p.x - CX
NearCircles(p) ==
  /\ ~DistGT(Dist2(p), R_ROBOT_MAX)
  /\ ~DistLT(Dist2(p), R_ROBOT_MIN)
  /\ \/ DistGT(Dist2(p), R_ROBOT_MAX - MoveBand)
     \/ DistLT(Dist2(p), R_ROBOT_MIN + MoveBand)
MoveStarts ==
  { p \in { [x |-> RobotStart.x + 8 * a, y |-> RobotStart.y + 8 * b,
             angle |-> 0] : a \in 0..77, b \in (-34)..43 } :
      InSector(p) /\ NearCircles(p) }
InitMove ==
  /\ stage = "DEMOLISH"
  /\ activeLayer = 0
  /\ constructStep = "MOLD"
  /\ robot \in MoveStarts
  /\ activeToolIdx = 0
  /\ segments = WedgeSegments
  /\ debris = {}
  /\ particles = {}
  /\ globalTemp = 0
  /\ toastMessage = "DEMOLISH_START"
  /\ toastTimer = FALSE
  /\ toastCalls = 0
  /\ refs = Snapshot("DEMOLISH", 0, 0, "MOLD", 0, robot, {})
  /\ segmentsRef = WedgeSegments
  /\ segsAliased = TRUE
  /\ operator = "any"
\* a run of gameLoop with direction keys down and the action not held
MoveTick ==
  /\ InSector(refs.robot) /\ NearCircles(refs.robot)
  /\ \E in \in KeyDirections, at \in SpotOffsets :
       Tick(in[1], in[2], FALSE, FALSE, at)
NextMove ==
  \/ MoveTick
  \/ SyncRefs
SpecMove == InitMove /\ [][NextMove]_vars

\* ----------------------------------------------------------------- claims
\* a step that is one run of gameLoop
TickStep ==
  \E in \in TickInputs, working \in BOOLEAN, at \in SpotOffsets,
     spark \in BOOLEAN : Tick(in[1], in[2], working, spark, at)

AutoTransitions ==
  { <<"DEMOLISH", "CLEAN">>, <<"CLEAN", "CONSTRUCT">>,
    <<"CONSTRUCT", "HEAT">>, <<"HEAT", "VICTORY">> }

\* C1: the stage changes only from INTRO to DEMOLISH by the start command,
\* along DEMOLISH, CLEAN, CONSTRUCT, HEAT, VICTORY one stage at a time inside
\* a run of gameLoop, or to INTRO by the reset command; no run skips a stage
\* or moves the stage backwards.
StageMovesInOrder ==
  [][stage' # stage =>
       \/ stage = "INTRO" /\ stage' = "DEMOLISH" /\ initGame
       \/ <<stage, stage'>> \in AutoTransitions /\ TickStep
       \/ stage' = "INTRO" /\ returnToMenu]_vars
\* every automatic transition has been taken
ReachedVictory == stage = "VICTORY" /\ globalTemp = Fx(100)

FourBroken(segs) ==
  /\ Len(segs) = 4
  /\ \A i \in 1..4 : segs[i].state = "broken"

\* C2: a run of gameLoop that reads stage DEMOLISH leaves the stage CLEAN
\* exactly if all 4 wedges are broken at its transition check, and the stage
\* never becomes CLEAN with fewer than 4 broken wedges.
CleanIffAllBroken ==
  [][/\ (refs.stage = "DEMOLISH" /\ TickStep)
          => (stage' = "CLEAN" <=> FourBroken(segmentsRef'))
     /\ (stage' = "CLEAN" /\ stage # "CLEAN") => FourBroken(segments')]_vars
\* the run that broke the last wedge has just set CLEAN
JustEnteredClean ==
  /\ stage = "CLEAN" /\ refs.stage = "DEMOLISH"
  /\ FourBroken(segments)

\* C3: while the stage stays CONSTRUCT the sub-phase changes only MOLD to
\* POUR and POUR to DEMOLD on the same layer, and DEMOLD to MOLD together with
\* the layer index going up by one; the layer index changes in no other step.
SubPhaseCycle ==
  [][(stage = "CONSTRUCT" /\ stage' = "CONSTRUCT"
      /\ << constructStep, activeLayer >>' # << constructStep, activeLayer >>)
       => \/ /\ constructStep = "MOLD" /\ constructStep' = "POUR"
             /\ activeLayer' = activeLayer
          \/ /\ constructStep = "POUR" /\ constructStep' = "DEMOLD"
             /\ activeLayer' = activeLayer
          \/ /\ constructStep = "DEMOLD" /\ constructStep' = "MOLD"
             /\ activeLayer' = activeLayer + 1]_vars
\* the second layer is being poured: a whole cycle and more has run
PouringSecondLayer ==
  stage = "CONSTRUCT" /\ activeLayer = 1 /\ constructStep = "POUR"
  /\ segments[2].state = "molded"

\* the run that completes DEMOLD on the ring of layer 3
CompletesLastDemold ==
  /\ refs.stage = "CONSTRUCT" /\ refs.layer = 3 /\ refs.step = "DEMOLD"
  /\ Len(segmentsRef) = 4 /\ Len(segmentsRef') = 4
  /\ segmentsRef[4].state = "filled" /\ segmentsRef'[4].state = "concrete"
  /\ TickStep

\* C4: completing DEMOLD on layer 3 sets the stage to HEAT and leaves the
\* layer index 3; the layer index is in 0..3 in every state.
LastLayerExitsToHeat ==
  /\ [](activeLayer \in 0..3)
  /\ [][CompletesLastDemold => (stage' = "HEAT" /\ activeLayer' = 3)]_vars
\* the run that finished layer 3 has just set HEAT
JustEnteredHeat ==
  stage = "HEAT" /\ refs.stage = "CONSTRUCT" /\ activeLayer = 3
  /\ segments[4].state = "concrete"

\* C5: the stage goes from HEAT to VICTORY exactly in the run of gameLoop
\* that brings the heating scalar to 100, and once: in VICTORY no run
\* changes the stage or the scalar, only the reset command leaves VICTORY.
VictoryOnceAtHundred ==
  [][/\ (stage = "HEAT" /\ stage' # "HEAT" /\ stage' # "INTRO")
          => (stage' = "VICTORY" /\ TickStep
              /\ globalTemp < Fx(100) /\ globalTemp' = Fx(100))
     /\ (stage = "HEAT" /\ globalTemp < Fx(100) /\ globalTemp' = Fx(100))
          => stage' = "VICTORY"
     /\ (stage = "VICTORY" /\ TickStep)
          => (stage' = "VICTORY" /\ globalTemp' = globalTemp)
     /\ (stage = "VICTORY" /\ stage' # "VICTORY") => returnToMenu]_vars
\* VICTORY with the refs refreshed: the runs now read VICTORY
SettledVictory == stage = "VICTORY" /\ refs.stage = "VICTORY"

\* the heating band of the Interaction Logic
InHeatBand(p) ==
  DistLT(Dist2(p), R_OUTER_BASE + 80) /\ DistGT(Dist2(p), R_INNER_BASE - 20)
\* a run of gameLoop with the action held
HeldTick ==
  \E in \in TickInputs, at \in SpotOffsets, spark \in BOOLEAN :
    Tick(in[1], in[2], TRUE, spark, at)
\* a run of gameLoop in HEAT with the action held, the heater selected and
\* the robot inside the heating band, all three in the state and in the refs
\* the run reads
HeldHeatTick ==
  /\ stage = "HEAT" /\ activeToolIdx = 4 /\ InHeatBand(robot)
  /\ refs.stage = "HEAT" /\ refs.tool = 4 /\ refs.robot = robot
  /\ HeldTick

\* C6: the heating scalar is in [0, 100]; a run of gameLoop in HEAT never
\* lowers it: with the action held, the heater selected and the robot in the
\* heating band the run raises it by 0.9, not above 100, and every other run
\* in HEAT leaves it as it is.
HeatRaisedByEveryHeldTick ==
  /\ [](globalTemp \in 0..Fx(100))
  /\ [][/\ (stage = "HEAT" /\ TickStep) => globalTemp' >= globalTemp
        /\ HeldHeatTick => globalTemp' = MinOf(Fx(100), globalTemp + 9)
        /\ (stage = "HEAT" /\ TickStep /\ ~HeldTick)
             => globalTemp' = globalTemp]_vars

HpOf(segs) == { segs[i].hp : i \in 1..Len(segs) }

\* C7: the hp of every segment, as the state and as the ref of the loop hold
\* it, is in [0, 100] in every state.
HpInRange ==
  (HpOf(segments) \cup HpOf(segmentsRef)) \subseteq 0..Fx(100)
\* a wedge one run of work above 0 and a wedge already broken
WedgeAboutToBreak ==
  /\ stage = "DEMOLISH"
  /\ \E i \in 1..4 : segments[i].state = "intact" /\ segments[i].hp = Fx(1)
  /\ \E i \in 1..4 : segments[i].state = "broken" /\ segments[i].hp = 0

\* C8: the reset command leaves, from any stage, the stage INTRO, no
\* segment, no debris, no particle and the robot at
\* (CX, CY + R_INNER_BASE + 50) with heading 0.
ResetEmptiesWorld ==
  [][(stage # "INTRO" /\ stage' = "INTRO")
       => /\ segments' = << >> /\ debris' = {} /\ particles' = {}
          /\ robot' = [x |-> CX, y |-> CY + R_INNER_BASE + 50, angle |-> 0]
          /\ refs'.stage = "INTRO"]_vars
\* INTRO after a reset that came from HEAT or VICTORY (initGame sets the
\* scalar to 0, so only a reset leaves INTRO with a heated furnace)
ResetFromHeatedFurnace ==
  /\ stage = "INTRO" /\ globalTemp > 0
  /\ segments = << >> /\ debris = {} /\ particles = {} /\ robot = RobotInit

\* C9: in INTRO, so from a reset to the next start, every run of gameLoop
\* leaves the stage INTRO and the segments and debris empty, applies no work
\* and takes no transition of the stage the reset left: the layer, the
\* sub-phase, the heating scalar and the tool stay and no notification is set.
NoWorkAfterReset ==
  [][(stage = "INTRO" /\ TickStep)
       => /\ stage' = "INTRO" /\ segments' = << >> /\ debris' = {}
          /\ UNCHANGED << activeLayer, constructStep, globalTemp,
                          activeToolIdx, toastMessage >>
          /\ toastCalls' = 0]_vars
\* INTRO after a reset taken in CONSTRUCT in the middle of a layer
ResetInsideConstruct ==
  /\ stage = "INTRO" /\ globalTemp = 0
  /\ activeLayer = 2 /\ constructStep = "POUR" /\ activeToolIdx = 3

\* the text of the notification of each automatic transition
TransitionToast(st) ==
  IF st = "CLEAN" THEN "DEMOLISH_DONE"
  ELSE IF st = "CONSTRUCT" THEN "CONSTRUCT_START"
  ELSE IF st = "HEAT" THEN "ALL_LAYERS_DONE"
  ELSE null
TransitionToasts == { "DEMOLISH_DONE", "CONSTRUCT_START", "ALL_LAYERS_DONE" }
\* a run of gameLoop that called showToast with the text of a transition
NotifiesTransition ==
  toastCalls' = 1 /\ toastMessage' \in TransitionToasts /\ TickStep

\* C10 as stated: each of the four automatic transitions sets the
\* notification text once, in the run that takes it; a run that takes no
\* transition sets no notification of a transition.
EveryTransitionNotifiedOnce ==
  [][/\ (<< stage, stage' >> \in AutoTransitions /\ TickStep)
          => toastCalls' = 1
     /\ NotifiesTransition => << stage, stage' >> \in AutoTransitions]_vars

\* C10: the run of gameLoop that takes DEMOLISH to CLEAN, CLEAN to CONSTRUCT
\* or CONSTRUCT to HEAT calls showToast once, with the text of that
\* transition; the run that takes HEAT to VICTORY calls it not at all; a run
\* that leaves the stage as it is sets the text of a transition only if it
\* still reads the stage before the transition from stageRef, and then the
\* text of the transition taken last.
TransitionsNotified ==
  [][/\ (<< stage, stage' >> \in AutoTransitions /\ TickStep)
          => IF stage' = "VICTORY"
             THEN toastCalls' = 0 /\ toastMessage' = toastMessage
             ELSE toastCalls' = 1 /\ toastMessage' = TransitionToast(stage')
     /\ (stage' = stage /\ NotifiesTransition)
          => (refs.stage # stage /\ toastMessage' = TransitionToast(stage))
    ]_vars
\* VICTORY just entered, the notification still that of CONSTRUCT to HEAT
SilentVictory ==
  /\ stage = "VICTORY" /\ refs.stage = "HEAT"
  /\ toastCalls = 0 /\ toastMessage \in { "ALL_LAYERS_DONE", null }

\* C11: the stage goes from CLEAN to CONSTRUCT only in a run of gameLoop and
\* only with no debris left, before and after the run; a run that reads
\* stage CLEAN, no debris and the wedges from its refs sets CONSTRUCT, and a
\* run in CLEAN with debris left in the state leaves the stage CLEAN.
CleanDoneIffNoDebris ==
  [][/\ (stage = "CLEAN" /\ stage' = "CONSTRUCT")
          => (debris = {} /\ debris' = {} /\ TickStep)
     /\ (refs.stage = "CLEAN" /\ refs.debris = {}
         /\ Len(segmentsRef) > 0 /\ TickStep)
          => stage' = "CONSTRUCT"
     /\ (stage = "CLEAN" /\ debris # {} /\ TickStep) => stage' = "CLEAN"]_vars
\* the run that found the site clean has just set CONSTRUCT
JustEnteredConstruct ==
  /\ stage = "CONSTRUCT" /\ refs.stage = "CLEAN"
  /\ debris = {} /\ refs.debris = {}

\* the wedges of segs in state "broken"
BrokenWedges(segs) ==
  { i \in 1..Len(segs) : segs[i].state = "broken" }
\* the wedges a step breaks
BreaksNow ==
  { i \in 1..Len(segmentsRef) :
      /\ Len(segmentsRef') = Len(segmentsRef)
      /\ segmentsRef[i].state = "intact" /\ segmentsRef'[i].state = "broken" }

ToolInRange == activeToolIdx \in 0..4

\* hp and state of the segments, in order
Progress(segs) == [i \in 1..Len(segs) |-> << segs[i].hp, segs[i].state >>]
\* a run of gameLoop in which the action is not held or the Check Logic does
\* not lock
UngatedTick ==
  \E in \in TickInputs, working \in BOOLEAN, at \in SpotOffsets,
     spark \in BOOLEAN :
    /\ ~(working /\ Resolver(MoveRobot(refs.robot, in[1], in[2])).locked)
    /\ Tick(in[1], in[2], working, spark, at)

\* C14 as stated: a run of gameLoop in which the action is not held or the
\* resolver does not lock leaves hp and state of every segment, the
\* sub-phase, the layer and the heating scalar as they are.
NoLockNoChange ==
  [][UngatedTick
       => /\ Progress(segments') = Progress(segments)
          /\ UNCHANGED << constructStep, activeLayer, globalTemp >>]_vars

\* C14: a run of gameLoop in which the action is not held or the resolver
\* does not lock leaves the sub-phase, the layer and the heating scalar as
\* they are, and the segments too unless it reads stage CLEAN and no debris
\* from its refs: that run sets CONSTRUCT and puts the four empty rings in
\* the place of the wedges.
NoLockNoWork ==
  [][\/ /\ UNCHANGED << constructStep, activeLayer, globalTemp >>
        /\ segmentsRef' = segmentsRef
        /\ \/ segments' = segments
           \/ /\ refs.stage = "CLEAN" /\ refs.debris = {}
              /\ stage' = "CONSTRUCT"
              /\ Len(segmentsRef) = 4 /\ Len(segments') = 4
              /\ \A i \in 1..4 :
                   /\ segmentsRef[i].state = "broken"
                   /\ segments'[i].state = "empty" /\ segments'[i].hp = 0
     \/ ~UngatedTick]_vars
\* the furnace half heated and another tool than the heater in hand: the
\* runs with the action held do not lock
HeaterPutDown ==
  /\ stage = "HEAT" /\ refs.stage = "HEAT"
  /\ globalTemp > Fx(50) /\ activeToolIdx = 2 /\ refs.tool = 2

\* C15: in INTRO and in VICTORY only initGame and returnToMenu change the
\* robot, the segments, the debris, the tool, the layer, the sub-phase or
\* the heating scalar: no run of gameLoop, whatever keys are down, and no
\* tool key or toolbar click does.
BookendsInert ==
  [][(stage \in {"INTRO", "VICTORY"} /\ ~initGame /\ ~returnToMenu)
       => UNCHANGED << robot, segments, debris, activeToolIdx, activeLayer,
                       constructStep, globalTemp >>]_vars

\* C17: the start command in INTRO, after any earlier play-through, gives
\* stage DEMOLISH, the four wedges with ids 0..3, intact at hp 100, no
\* debris, tool 0, layer 0, sub-phase MOLD, heating scalar 0 and the robot
\* at the start position, in the state and in the refs.
StartGivesFreshSite ==
  [][(stage = "INTRO" /\ stage' # "INTRO")
       => /\ stage' = "DEMOLISH"
          /\ Len(segments') = 4
          /\ \A i \in 1..4 :
               /\ segments'[i].id = i - 1
               /\ segments'[i].state = "intact"
               /\ segments'[i].hp = Fx(100)
               /\ segments'[i].startAngle = 90 * (i - 1)
               /\ segments'[i].endAngle = 90 * i
          /\ segmentsRef' = segments'
          /\ debris' = {}
          /\ activeToolIdx' = 0
          /\ activeLayer' = 0
          /\ constructStep' = "MOLD"
          /\ globalTemp' = 0
          /\ robot' = [x |-> CX, y |-> CY + R_INNER_BASE + 60, angle |-> 0]
          /\ refs' = Snapshot(stage', activeToolIdx', activeLayer',
                              constructStep', globalTemp', robot', debris')
    ]_vars
\* the menu after a game played to VICTORY, the start button ready: the
\* heating scalar, the layer and the tool are those the game ended with
RestartAfterVictory ==
  /\ stage = "INTRO" /\ ~toastTimer
  /\ globalTemp = Fx(100) /\ activeLayer = 3 /\ activeToolIdx = 4
  /\ refs.temp = Fx(100) /\ refs.layer = 3

\* four empty rings, ids 0..3, hp 0, 0 to 360 degrees, that divide the band
\* from R_INNER_BASE to R_OUTER_BASE into four of the same thickness
FourEmptyRings(segs) ==
  /\ Len(segs) = 4
  /\ \A i \in 1..4 :
       /\ segs[i].id = i - 1
       /\ segs[i].state = "empty" /\ segs[i].hp = 0
       /\ segs[i].startAngle = 0 /\ segs[i].endAngle = 360
       /\ segs[i].rOuter - segs[i].rInner = segs[1].rOuter - segs[1].rInner
       /\ segs[i].rOuter > segs[i].rInner
  /\ segs[1].rInner = R_INNER_BASE
  /\ segs[4].rOuter = R_OUTER_BASE
  /\ \A i \in 1..3 : segs[i + 1].rInner = segs[i].rOuter

\* C18: the run that takes CLEAN to CONSTRUCT puts four empty rings in the
\* place of the wedges, with sub-phase MOLD and layer 0; when the refs first
\* read CONSTRUCT, so at the first run of gameLoop in CONSTRUCT, the
\* segments it works on are those four empty rings, the sub-phase is MOLD
\* and the layer 0.
ConstructStartsFromEmptyRings ==
  [][/\ (stage = "CLEAN" /\ stage' = "CONSTRUCT")
          => /\ FourEmptyRings(segments')
             /\ constructStep' = "MOLD" /\ activeLayer' = 0
     /\ (refs.stage # "CONSTRUCT" /\ refs'.stage = "CONSTRUCT")
          => /\ FourEmptyRings(segmentsRef') /\ FourEmptyRings(segments')
             /\ refs'.step = "MOLD" /\ refs'.layer = 0
             /\ constructStep' = "MOLD" /\ activeLayer' = 0
    ]_vars
\* the first run of gameLoop in CONSTRUCT is about to read its refs
BeforeFirstConstructTick ==
  /\ stage = "CONSTRUCT" /\ refs.stage = "CONSTRUCT"
  /\ refs.layer = 0 /\ refs.step = "MOLD"
  /\ FourEmptyRings(segmentsRef)

\* C19: the run of gameLoop that takes DEMOLISH to CLEAN selects tool 1, the
\* one that takes CLEAN to CONSTRUCT tool 2 and the one that takes CONSTRUCT
\* to HEAT tool 4; after each the selected tool is the tool
\* getSuggestedToolIdx gives for the new stage.
TransitionSelectsTool ==
  [][/\ (stage = "DEMOLISH" /\ stage' = "CLEAN") => activeToolIdx' = 1
     /\ (stage = "CLEAN" /\ stage' = "CONSTRUCT") => activeToolIdx' = 2
     /\ (stage = "CONSTRUCT" /\ stage' = "HEAT") => activeToolIdx' = 4
     /\ (<< stage, stage' >> \in AutoTransitions /\ stage' # "VICTORY")
          => activeToolIdx' = SuggestedTool(stage', constructStep')
    ]_vars
\* HEAT just entered: the heater is selected, the refs still hold the
\* manipulator of the last DEMOLD
HeaterHandedOver ==
  /\ stage = "HEAT" /\ refs.stage = "CONSTRUCT"
  /\ activeToolIdx = 4 /\ refs.tool = 2

\* the steps a segment's state takes, with the sub-phase of the step
StateSteps ==
  { << "intact", "broken", "DEMOLISH", "MOLD" >>,
    << "empty", "molded", "CONSTRUCT", "MOLD" >>,
    << "molded", "filled", "CONSTRUCT", "POUR" >>,
    << "filled", "concrete", "CONSTRUCT", "DEMOLD" >> }
\* the rate that hp moves by in a run that reads stage st and sub-phase step
RateOf(st, step) == IF st = "DEMOLISH" THEN -30 ELSE StepRate(step)
\* segs and next hold the same segments
SameSegments(segs, next) ==
  /\ Len(next) = Len(segs)
  /\ \A i \in 1..Len(segs) :
       /\ next[i].startAngle = segs[i].startAngle
       /\ next[i].endAngle = segs[i].endAngle
\* segment i of segs takes its state in next by one step forward, in a run
\* of gameLoop that takes its hp to the bound
OneStepForward(segs, next, i) ==
  /\ TickStep
  /\ \E s \in StateSteps :
       /\ s[1] = segs[i].state /\ s[2] = next[i].state
       /\ s[3] = refs.stage
       /\ s[3] = "CONSTRUCT" => s[4] = refs.step
       /\ IF s[3] = "DEMOLISH"
          THEN segs[i].hp + RateOf(s[3], refs.step) <= 0
          ELSE segs[i].hp + RateOf(s[3], refs.step) >= Fx(100)
  /\ next[i].hp = 0

\* C20: the state of a segment changes only in a run of gameLoop that takes
\* its hp to the bound (0 for a wedge, 100 for a ring), and then by one step
\* along intact, broken or along empty, molded, filled, concrete; a broken
\* wedge is left as it is by every run.
StateOneStepAtBound ==
  [][/\ SameSegments(segmentsRef, segmentsRef')
          => \A i \in 1..Len(segmentsRef) :
               /\ segmentsRef'[i].state # segmentsRef[i].state
                    => OneStepForward(segmentsRef, segmentsRef', i)
               /\ segmentsRef[i].state = "broken"
                    => segmentsRef'[i] = segmentsRef[i]
     /\ SameSegments(segments, segments')
          => \A i \in 1..Len(segments) :
               /\ segments'[i].state # segments[i].state
                    => OneStepForward(segments, segments', i)
               /\ segments[i].state = "broken" => segments'[i] = segments[i]
    ]_vars
\* the first ring through its three sub-phases, the second through MOLD
SecondRingMolded ==
  /\ stage = "CONSTRUCT"
  /\ segments[1].state = "concrete" /\ segments[2].state = "molded"

\* the distance from the centre is between R_ROBOT_MIN and R_ROBOT_MAX, to
\* the pixel that positions are kept in
InDonut(p) ==
  /\ Dist2(p) <= (R_ROBOT_MAX + 1) * (R_ROBOT_MAX + 1)
  /\ Dist2(p) >= (R_ROBOT_MIN - 1) * (R_ROBOT_MIN - 1)
InScreenBox(p) ==
  /\ p.x >= 50 /\ p.x <= GAME_WIDTH - 50
  /\ p.y >= 50 /\ p.y <= GAME_HEIGHT - 50

OnlyActiveRingWorked ==
  [][(stage = "CONSTRUCT" /\ TickStep)
       => /\ \A i \in 1..Len(segments) :
               Progress(segments')[i] # Progress(segments)[i]
                 => segments[i].id = activeLayer /\ i - 1 = activeLayer
          /\ \A i \in 1..Len(segmentsRef) :
               segmentsRef'[i] # segmentsRef[i]
                 => /\ segmentsRef[i].id = refs.layer
                    /\ refs.layer = activeLayer
                    /\ refs.stage = "CONSTRUCT"
    ]_vars
\* the third ring in work, from a place in range of the fourth ring too
ThirdRingInWork ==
  /\ stage = "CONSTRUCT" /\ activeLayer = 2
  /\ segments[3].hp > 0 /\ segments[4].hp = 0
  /\ robot = [x |-> CX + R_INNER_BASE + 240, y |-> CY, angle |-> 90]

\* the Check Logic locks in a run of gameLoop that starts now
LocksNow ==
  \E in \in TickInputs :
    Resolver(MoveRobot(refs.robot, in[1], in[2])).locked

\* C22: whenever the Check Logic locks, the tool it reads is the one
\* getSuggestedToolIdx gives for the stage and the sub-phase it reads (0 in
\* DEMOLISH, 1 in CLEAN, 2 in MOLD and DEMOLD, 3 in POUR, 4 in HEAT); a run
\* of gameLoop that reads another tool changes no segment it works on and
\* leaves the heating scalar as it is.
LockNeedsSuggestedTool ==
  [][/\ LocksNow
          => /\ refs.tool = SuggestedTool(refs.stage, refs.step)
             /\ refs.tool \in 0..4
     /\ (refs.tool # SuggestedTool(refs.stage, refs.step)
         /\ (segmentsRef' # segmentsRef \/ globalTemp' # globalTemp))
          => ~TickStep
    ]_vars
\* the injector locked on the molded ring
InjectorLocked ==
  /\ stage = "CONSTRUCT" /\ refs.stage = "CONSTRUCT"
  /\ refs.step = "POUR" /\ refs.tool = 3
  /\ Resolver(refs.robot).locked

\* the debris of ds not closer than 400 to p
OutOfVacuum(ds, p) ==
  { d \in ds : PDist2(d, p) >= 400 * 400 }
\* a run of gameLoop with Space down or the work button held
HeldRun ==
  \E in \in TickInputs, at \in SpotOffsets, spark \in BOOLEAN :
    Tick(in[1], in[2], TRUE, spark, at)
\* a run of gameLoop other than one that reads CLEAN and the cleanup tool
\* with Space down or the work button held
NoSweepRun ==
  \E in \in TickInputs, at \in SpotOffsets, spark \in BOOLEAN,
     working \in BOOLEAN :
    /\ ~(working /\ refs.stage = "CLEAN" /\ refs.tool = 1)
    /\ Tick(in[1], in[2], working, spark, at)

LogicVars ==
  << stage, activeLayer, constructStep, robot, activeToolIdx, segments,
     debris, globalTemp, refs, segmentsRef, segsAliased >>
\* LogicVars after a run of gameLoop, from LogicVars and the inputs of the
\* run alone: gameLoop less its Particles and Particle Update blocks and its
\* calls of showToast
LogicAfterWork(newRobot, w, working, at) ==
  LET layerDone == w.stepDone /\ refs.step = "DEMOLD"
      toHeat == layerDone /\ refs.layer >= 3
      toClean == /\ refs.stage = "DEMOLISH" /\ Len(w.segs) > 0
                 /\ \A i \in 1..Len(w.segs) : w.segs[i].state = "broken"
      toConstruct == /\ refs.stage = "CLEAN" /\ refs.debris = {}
                     /\ Len(w.segs) > 0
      kept == OutOfVacuum(refs.debris, newRobot)
      sweeps == /\ refs.stage = "CLEAN" /\ working /\ refs.tool = 1
                /\ kept # refs.debris
  IN << IF w.victory THEN "VICTORY" ELSE IF toHeat THEN "HEAT"
        ELSE IF toClean THEN "CLEAN" ELSE IF toConstruct THEN "CONSTRUCT"
        ELSE stage,
        IF layerDone /\ ~toHeat THEN refs.layer + 1
        ELSE IF toConstruct THEN 0 ELSE activeLayer,
        IF w.stepDone /\ ~toHeat THEN StepAfter(refs.step)
        ELSE IF toConstruct THEN "MOLD" ELSE constructStep,
        newRobot,
        IF toHeat THEN 4 ELSE IF toClean THEN 1
        ELSE IF toConstruct THEN 2 ELSE activeToolIdx,
        IF toConstruct THEN RingSegments
        ELSE IF segsAliased THEN w.segs ELSE segments,
        IF w.broke # NoSegment THEN debris \cup SpawnDebris(w.broke, at)
        ELSE IF sweeps THEN kept ELSE debris,
        IF w.heat THEN w.temp ELSE globalTemp,
        refs,
        w.segs,
        segsAliased /\ ~toConstruct >>
LogicAfter(in, working, at) ==
  LogicAfterWork(MoveRobot(refs.robot, in[1], in[2]),
                 WorkAction(Resolver(MoveRobot(refs.robot, in[1], in[2])),
                            working),
                 working, at)

\* C24: the particles and the notification decide nothing.  Every run of
\* gameLoop leaves the stage, the segments, the debris, the robot, the tool,
\* the layer, the sub-phase and the heating scalar (and the refs) as a
\* function of these and of the inputs of the run, the same whether the run
\* spawns a particle or not and whatever particles and notification there
\* are; a step that changes the particles or the notification alone changes
\* none of them.  So two executions on the same commands and inputs that
\* differ in particles and notifications agree on all of these, step by
\* step.
CosmeticsDecideNothing ==
  [][\A in \in TickInputs, working \in BOOLEAN, at \in SpotOffsets :
       (/\ robot' = MoveRobot(refs.robot, in[1], in[2])
        /\ \E spark \in BOOLEAN : Tick(in[1], in[2], working, spark, at))
         => LogicVars' = LogicAfter(in, working, at)]_vars
\* a sweep in CLEAN while a spark is alive and a notification is up
SweepUnderSparks ==
  /\ stage = "CLEAN" /\ refs.stage = "CLEAN"
  /\ particles # {} /\ toastTimer
  /\ debris # refs.debris

\* the state of the ring a sub-phase works on
StateBefore(step) ==
  IF step = "MOLD" THEN "empty" ELSE IF step = "POUR" THEN "molded"
  ELSE "filled"
\* the rings segs agree with layer and step: concrete below the layer,
\* empty at hp 0 above it, the ring of the layer in the state step works on
RingsAgree(segs, layer, step) ==
  /\ Len(segs) = 4
  /\ \A i \in 1..4 :
       /\ segs[i].id < layer => segs[i].state = "concrete"
       /\ segs[i].id > layer => segs[i].state = "empty" /\ segs[i].hp = 0
       /\ segs[i].id = layer => segs[i].state = StateBefore(step)
\* the ring of the layer has completed step and the state holds the
\* sub-phase, the layer or the stage that follows, not yet in the refs
StepUpdatePending(segs, layer, step) ==
  /\ Len(segs) = 4
  /\ \A i \in 1..4 :
       /\ segs[i].id < layer => segs[i].state = "concrete"
       /\ segs[i].id > layer => segs[i].state = "empty" /\ segs[i].hp = 0
       /\ segs[i].id = layer
            => segs[i].state = StepResult(step) /\ segs[i].hp = 0
  /\ \/ constructStep # step
     \/ activeLayer # layer
     \/ stage # "CONSTRUCT"

\* C25: what a run of gameLoop reads in CONSTRUCT agrees: the rings below
\* the layer are concrete, those above it empty at hp 0, and the ring of
\* the layer is empty in MOLD, molded in POUR and filled in DEMOLD; or that
\* ring has completed the sub-phase the refs still hold, and then the run
\* does not lock and works on nothing.  The state in CONSTRUCT always
\* agrees.
RingsAgreeWithLayerAndStep ==
  /\ refs.stage = "CONSTRUCT"
       => \/ RingsAgree(segmentsRef, refs.layer, refs.step)
          \/ /\ StepUpdatePending(segmentsRef, refs.layer, refs.step)
             /\ ~LocksNow
  /\ stage = "CONSTRUCT"
       => RingsAgree(segments, activeLayer, constructStep)
\* the second ring filled, the refs still in POUR
PourJustCompleted ==
  /\ refs.stage = "CONSTRUCT" /\ refs.layer = 1 /\ refs.step = "POUR"
  /\ segmentsRef[2].state = "filled"
  /\ constructStep = "DEMOLD"

\* the debris agrees with the stage st: none outside DEMOLISH and CLEAN, 6
\* for each broken wedge of segs in DEMOLISH
DebrisOfStage(st, ds, segs) ==
  /\ st \in {"INTRO", "CONSTRUCT", "HEAT", "VICTORY"} => ds = {}
  /\ st = "DEMOLISH" => Cardinality(ds) = 6 * Cardinality(BrokenWedges(segs))

ConstructStartsAtRingOne ==
  [][(stage = "CLEAN" /\ stage' = "CONSTRUCT")
       => robot' = [x |-> CX, y |-> CY + R_INNER_BASE + 20, angle |-> 90]
    ]_vars

\* the heating scalar tm agrees with the stage st
TempOfStage(st, tm) ==
  /\ st \in {"DEMOLISH", "CLEAN", "CONSTRUCT"} => tm = 0
  /\ st = "HEAT" => tm >= 0 /\ tm < Fx(100)
  /\ st = "VICTORY" => tm = Fx(100)

\* C29: the heating scalar is 0 in DEMOLISH, CLEAN and CONSTRUCT and when
\* HEAT is entered, in every game and so in one started after a reset from
\* HEAT or VICTORY; it is below 100 in HEAT and 100 in VICTORY.
TempTiedToStage ==
  [][/\ TempOfStage(stage, globalTemp)
     /\ TempOfStage(stage', globalTemp')
     /\ (stage # "HEAT" /\ stage' = "HEAT") => globalTemp' = 0
    ]_vars
\* the menu after a reset from HEAT, the scalar as the game left it and the
\* start button ready
WarmMenu ==
  /\ stage = "INTRO" /\ ~toastTimer
  /\ globalTemp > 0 /\ globalTemp < Fx(100)

InGame == stage \in {"DEMOLISH", "CLEAN", "CONSTRUCT", "HEAT"}
\* at p, with the suggested tool and the action held, a run of gameLoop
\* locks or sweeps
CanWorkAt(p) ==
  \/ Resolver(p).locked
  \/ refs.stage = "CLEAN" /\ refs.tool = 1
     /\ \E d \in refs.debris : PDist2(d, p) < 400 * 400
\* what the operator who completes the procedure does: selects the
\* suggested tool when another is selected,
SelectSuggested ==
  /\ InGame
  /\ activeToolIdx # SuggestedTool(stage, constructStep)
  /\ ToolbarClick(SuggestedTool(stage, constructStep))
\* drives to a place in range of the target when not at one,
DriveToTarget ==
  /\ InGame
  /\ activeToolIdx = SuggestedTool(stage, constructStep)
  /\ ~CanWorkAt(robot)
  /\ \E p \in Stations : CanWorkAt(p) /\ Walk(p)
\* and holds the action through the runs of gameLoop
HeldRunOfGame ==
  \E at \in SpotChoices, spark \in SparkChoices :
    Tick(0, 0, TRUE, spark, at)
\* a run of gameLoop, whatever the operator does
RunsOfGameLoop ==
  \E in \in InputChoices, working \in BOOLEAN, at \in SpotChoices,
     spark \in SparkChoices :
    Tick(in[1], in[2], working, spark, at)


\* the game with an operator who, from some moment on, is set on completing
\* the procedure and from then on does nothing else
SetOnCompleting ==
  /\ operator = "any"
  /\ InGame
  /\ operator' = "completes"
  /\ UNCHANGED << stage, activeLayer, constructStep, robot, activeToolIdx,
                  segments, debris, particles, globalTemp, toastMessage,
                  toastTimer, toastCalls, refs, segmentsRef, segsAliased >>
NextLive ==
  \/ operator = "any" /\ initGame
  \/ operator = "any" /\ returnToMenu
  \/ operator = "any" /\ RunsOfGameLoop
  \/ operator = "any" /\ SyncRefs
  \/ operator = "any" /\ \E key \in KeyValues : KeyDigit(key)
  \/ operator = "any" /\ \E idx \in 0..4 : ToolbarClick(idx)
  \/ operator = "any" /\ ToastExpire
  \/ operator = "any" /\ \E p \in Stations : Walk(p)
  \/ SetOnCompleting
  \/ operator = "completes" /\ SelectSuggested
  \/ operator = "completes" /\ DriveToTarget
  \/ operator = "completes" /\ HeldRunOfGame
  \/ operator = "completes" /\ SyncRefs
  \/ operator = "completes" /\ ToastExpire
\* a run of gameLoop with the action held changes the state: LogicAfter is
\* what such a run leaves, and a run of gameLoop is never disabled
HeldRunActs ==
  \E at \in SpotChoices : LogicAfter(<< 0, 0 >>, TRUE, at) # LogicVars
\* The browser keeps calling gameLoop (requestAnimationFrame) and React
\* keeps running the effects that copy the state to the refs; the operator
\* set on completing keeps the action held, selects the suggested tool and
\* drives to the target.  The last conjunct is weak fairness of the runs of
\* gameLoop with the action held, WF_vars(operator = "completes" /\
\* HeldRunOfGame), with HeldRunActs written for ENABLED.
SpecLive ==
  /\ Init /\ [][NextLive]_vars
  /\ WF_vars(operator = "completes" /\ SyncRefs)
  /\ WF_vars(operator = "completes" /\ SelectSuggested)
  /\ WF_vars(operator = "completes" /\ DriveToTarget)
  /\ \/ []<>~(operator = "completes" /\ HeldRunActs)
     \/ []<><<operator = "completes" /\ HeldRunOfGame>>_vars

\* C28: from every state in DEMOLISH, CLEAN, CONSTRUCT or HEAT the game can
\* reach, once the operator keeps the action held, keeps the suggested tool
\* selected and keeps the robot in range of the target, and gameLoop keeps
\* running, the stage becomes VICTORY: no state in the game is a dead end.
CanAlwaysComplete == (operator = "completes") ~> (stage = "VICTORY")
\* in CONSTRUCT with the drill in hand, out of range of the ring to work on
FarFromRingWithDrill ==
  /\ operator = "completes"
  /\ stage = "CONSTRUCT" /\ refs.stage = "CONSTRUCT"
  /\ activeToolIdx = 0 /\ activeLayer = 0
  /\ robot = [x |-> CX, y |-> CY + R_ROBOT_MAX, angle |-> 180]

====
